---- MODULE Spec2Model ----
(***************************************************************************)
(* Contact-form email relay: the host-neutral middleware chain runner,     *)
(* the shared rate limiters, the worker entry point and the email service  *)
(* with its provider factory and providers.                                *)
(*                                                                         *)
(* Four specifications share the variables of this module:                 *)
(*   SpecChain  - one call of runMiddlewareChain over an arbitrary list of *)
(*                synchronous and promise-returning middleware, with the   *)
(*                JavaScript run-to-completion / microtask discipline;     *)
(*   SpecRate   - the two rate limiters driven directly, under a clock;    *)
(*   SpecWorker - requests through workerHandler.fetch and                 *)
(*                workerHandler.processRequest.  Requests of one isolate   *)
(*                share only the limiter maps and the preflight flag, and  *)
(*                a request reads and writes them inside one synchronous   *)
(*                step, so the worker takes its requests one after another.*)
(*   SpecService - calls of EmailService.sendEmail: schema validation,     *)
(*                EmailProviderFactory.getProvider with its cache, and the *)
(*                provider's sendEmail, under each provider configuration. *)
(***************************************************************************)
EXTENDS Integers, Sequences, FiniteSets, TLC

VARIABLES
  mws,      \* the middlewares array handed to runMiddlewareChain
  chain,    \* the activation of runMiddlewareChain: index, promises, res
  runner,   \* position of runMiddlewareChain: "init", "awaiting", "returned"
  result,   \* the boolean runMiddlewareChain resolved to ("none" before)
  now,      \* Date.now(), in milliseconds
  emailRateLimitMap,  \* module-level Map of commonEmailRateLimiter
  ipLimitMap,         \* this.ipLimitMap of one CommonRateLimiter instance
  limiter,  \* which limiter the requests of a SpecRate run go through
  hist,     \* history of the limiter decisions taken so far
  req,      \* the request the worker is handling, with its res adapter
  preflightHandled,   \* context.preflightHandled of createSecurityMiddleware
  env,      \* the configuration the worker runs under
  ipSeen,   \* per IP, the requests that reached the general rate limiter
  svc,      \* one call of EmailService.sendEmail
  providerCache,      \* EmailProviderFactory.providerCache
  fac,      \* the provider instances made so far and the last getProvider calls
  wres,     \* a WorkerResponseAdapter, its listeners and what send() returned
  prov,     \* one provider instance, the sendEmail calls on it and the wire
  pend      \* getProvider calls that overlap, and the instances they made

chainVars == <<mws, chain, runner, result>>
rateVars == <<now, emailRateLimitMap, ipLimitMap, limiter, hist>>
workerVars == <<req, preflightHandled, ipSeen, env>>
serviceVars == <<svc, providerCache, fac>>
vars == <<chainVars, rateVars, workerVars, serviceVars, wres, prov, pend>>

(***************************************************************************)
(* Bounds                                                                  *)
(***************************************************************************)
MaxChain == 3
MaxReq == 4       \* limiter calls in one SpecRate run
MaxTicks == 6     \* clock steps in one run
MaxInstances == 3 \* provider instances the factory hands out in one run
MaxCalls == 2     \* sendEmail calls on one provider instance
MaxInits == 2     \* initialize() calls on one provider instance
MaxCallers == 2   \* getProvider calls that may overlap
MaxEmits == 2     \* json() and send() calls on one response
TickMs == 1000    \* milliseconds per clock step

(***************************************************************************)
(* Middleware shapes.  A CommonMiddleware is (req, res, next) => void |    *)
(* Promise<void>.  A shape says whether the function is async (it awaits   *)
(* I/O before its body runs), what its body does, and, when it calls       *)
(* next(), whether it waits for the promise next() returns (await next()   *)
(* in an async function, return next() in a synchronous one) or drops it   *)
(* (the plain `next();` of every middleware of the repository).            *)
(***************************************************************************)
Acts == {"next", "respond", "throw", "silent"}

ErrKinds == {"Error", "ZodError", "AppError"}

MwShapes ==
  {[async |-> a, act |-> x, awaits |-> w, err |-> e] :
      a \in BOOLEAN, x \in Acts, w \in BOOLEAN, e \in ErrKinds \cup {"none"}}

MwKinds ==
  {m \in MwShapes : /\ (m.awaits => m.act = "next")
                    /\ (m.act = "throw" <=> m.err # "none")
                    /\ (m.err \in {"ZodError", "AppError"} => ~m.async)}

\* createErrorResponse: ZodError -> 400, AppError -> err.statusCode (the
\* ValidationError/AppError default used here: 400 is taken by ZodError, an
\* AppError built with its default statusCode carries 500), anything else 500
AppErrorStatusCode == 500

createErrorResponse(err) ==
  IF err = "ZodError" THEN [status |-> 400, code |-> "VALIDATION_ERROR"]
  ELSE IF err = "AppError" THEN [status |-> AppErrorStatusCode, code |-> "APP_ERROR"]
  ELSE [status |-> 500, code |-> "SERVER_ERROR"]

\* the response a terminal middleware writes: res.status(403).json({...})
TerminalStatus == 403

(***************************************************************************)
(* The chain record                                                        *)
(*   index   - the closure variable `index`                                *)
(*   mstate  - per middleware: "idle", "io" (async, suspended on its own   *)
(*             await), "awaitNext" (suspended on the promise of next()),   *)
(*             "done", "threw"                                             *)
(*   nstate  - the promise of the j-th call of next(): "none", "pending",  *)
(*             "resolved", "rejected"                                      *)
(*   body, status - res.body and res.statusCode                            *)
(*   thrown  - the error a rejected promise carries                        *)
(*   log     - history of start / callnext / post / end events             *)
(*   unhandled - a rejected promise nobody awaits exists                   *)
(***************************************************************************)
ChainInit(n) ==
  [index     |-> 0,
   mstate    |-> [i \in 1..n |-> "idle"],
   nstate    |-> [j \in 1..(n + 1) |-> "none"],
   body      |-> "null",
   status    |-> 200,
   thrown    |-> "none",
   log       |-> <<>>,
   unhandled |-> FALSE]

\* middleware-adapter.ts:26  if (index < middlewares.length)
HasMiddleware(idx, n) == idx < n

\* middleware-adapter.ts:34  return !res.body
ChainReturn(body) == ~(body # "null")

\* whether the body of a middleware goes on to call next()
ContinuesChainAlways(m) == TRUE

ContinuesChain(m) == m.act = "next"

\* a middleware function returned or threw
MwFinish(s, i, ok) ==
  [s EXCEPT !.mstate[i] = IF ok THEN "done" ELSE "threw",
            !.log = Append(@, <<"end", i>>)]

RECURSIVE CallNext(_)

\* the body of middleware i, run to its return or to its next suspension
MwBody(s, i) ==
  LET m == mws[i] IN
  IF ContinuesChain(m)
  THEN LET s1 == CallNext([s EXCEPT !.log = Append(@, <<"callnext", i>>)])
       IN IF m.awaits
          THEN \* await next() suspends the body; return next() ends it
               \* and hands the promise of next() to the caller
               [s1 EXCEPT !.mstate[i] = "awaitNext",
                          !.log = IF m.async THEN @ ELSE Append(@, <<"end", i>>)]
          ELSE \* next(); the promise is dropped, the body carries on
               MwFinish([s1 EXCEPT !.log = Append(@, <<"post", i>>),
                                   !.unhandled = @ \/ s1.nstate[i + 1] = "rejected"],
                        i, TRUE)
  ELSE IF m.act = "respond"
  THEN MwFinish([s EXCEPT !.status = TerminalStatus, !.body = "terminal"], i, TRUE)
  ELSE IF m.act = "throw"
  THEN MwFinish([s EXCEPT !.thrown = m.err], i, FALSE)
  ELSE MwFinish(s, i, TRUE)

\* async function next(), up to the point where it suspends or returns
CallNext(s) ==
  LET j == s.index + 1 IN
  IF HasMiddleware(s.index, Len(mws))
  THEN LET s1 == [s EXCEPT !.index = j,
                           !.nstate[j] = "pending",
                           !.log = Append(@, <<"start", j>>)]
       IN IF mws[j].async
          THEN [s1 EXCEPT !.mstate[j] = "io"]
          ELSE LET s2 == MwBody(s1, j)
               IN IF s2.mstate[j] = "threw"
                  THEN [s2 EXCEPT !.nstate[j] = "rejected"]
                  ELSE s2
  ELSE [s EXCEPT !.nstate[j] = "resolved"]

\* the caller of the j-th next() observes its promise
NextAwaited(j) == j = 1 \/ mws[j - 1].awaits

\* a continuation is queued as a microtask
MicrotaskPending ==
  \/ runner = "awaiting" /\ chain.nstate[1] \in {"resolved", "rejected"}
  \/ \E j \in 1..Len(mws) :
        /\ chain.nstate[j] = "pending"
        /\ chain.mstate[j] \in {"done", "threw"}
  \/ \E i \in 1..Len(mws) :
        /\ chain.mstate[i] = "awaitNext"
        /\ chain.nstate[i + 1] \in {"resolved", "rejected"}

(***************************************************************************)
(* Rate limiters                                                           *)
(***************************************************************************)
\* limiter configuration: (windowMs, max) of the CommonRateLimiter
\* constructor, env.EMAIL_RATE_LIMIT_WINDOW_MS / env.EMAIL_RATE_LIMIT_MAX
WindowMs == 3000
RateMax == 2

\* 60 * 60 * 1000 and 1000 of `now % (60 * 60 * 1000) < 1000`
HourMs == 60 * 60 * 1000
ClearSlackMs == 1000

\* the clock starts three steps before the top of an hour (only the time
\* of day modulo one hour enters the limiters, so the hour is the first)
StartTime == HourMs - 3 * TickMs

EndTime == StartTime + MaxTicks * TickMs

Emails == {"a@x", "A@x", "b@x"}
Ips == {"ip1", "ip2"}

\* String.prototype.toLowerCase on the submitted address
toLowerCase(e) == IF e = "A@x" THEN "a@x" ELSE e

Keys == {toLowerCase(e) : e \in Emails} \cup Ips

NoEntry == [count |-> 0, timestamp |-> -1]

EmptyMap == [k \in Keys |-> NoEntry]

\* now % (60 * 60 * 1000) < 1000
ClearDue(t) == t % HourMs < ClearSlackMs

\* now - userData.timestamp > windowMs
WindowExpiredNever(t, ts, w) == ts - t > w

WindowExpired(t, ts, w) == t - ts > w

\* userData.count >= max
LimitReachedOffByOne(count, max) == count > max

LimitReached(count, max) == count >= max

\* userData.count + 1
IncrementLost(count) == count

Increment(count) == count + 1

\* map.set(key, entry)
StoreAll(m, key, entry) == [k \in DOMAIN m |-> entry]

Store(m, key, entry) == [m EXCEPT ![key] = entry]

\* the if / else-if / else over userData, writing into map m
\* (userData was read from the map the caller names)
Decide(m, userData, key, t, w, max) ==
  IF userData # NoEntry
  THEN IF WindowExpired(t, userData.timestamp, w)
       THEN [map |-> Store(m, key, [count |-> 1, timestamp |-> t]),
             ok |-> TRUE, fresh |-> TRUE]
       ELSE IF LimitReached(userData.count, max)
       THEN [map |-> m, ok |-> FALSE, fresh |-> FALSE]
       ELSE [map |-> Store(m, key, [count |-> Increment(userData.count),
                                    timestamp |-> userData.timestamp]),
             ok |-> TRUE, fresh |-> FALSE]
  ELSE [map |-> Store(m, key, [count |-> 1, timestamp |-> t]),
        ok |-> TRUE, fresh |-> TRUE]

\* no X-RateLimit-Remaining header on the response
NoHeader == -1

\* Math.max(0, this.max - (userData?.count ?? 1)), with the userData read
\* before this request was counted
RateLimitRemaining(userData, max) ==
  LET counted == IF userData = NoEntry THEN 1 ELSE userData.count
  IN IF max - counted > 0 THEN max - counted ELSE 0

\* commonEmailRateLimiter: userData is read before the periodic clear; it
\* sets no rate-limit headers
commonEmailRateLimiter(m, key, t) ==
  LET userData == m[key]
      m1 == IF ClearDue(t) THEN EmptyMap ELSE m
      d == Decide(m1, userData, key, t, WindowMs, RateMax)
  IN [map |-> d.map, ok |-> d.ok, fresh |-> d.fresh, remaining |-> NoHeader]

\* CommonRateLimiter.middleware: the periodic clear comes first; an admitted
\* request gets the X-RateLimit-* headers before next()
CommonRateLimiterMiddleware(m, key, t) ==
  LET m1 == IF ClearDue(t) THEN EmptyMap ELSE m
      userData == m1[key]
      d == Decide(m1, userData, key, t, WindowMs, RateMax)
  IN [map |-> d.map, ok |-> d.ok, fresh |-> d.fresh,
      remaining |-> IF d.ok THEN RateLimitRemaining(userData, RateMax)
                    ELSE NoHeader]

HistEntry(key, t, d) ==
  [key |-> key, t |-> t, ok |-> d.ok, fresh |-> d.fresh, clr |-> ClearDue(t),
   remaining |-> d.remaining]

\* new WorkerResponseAdapter(): status 200, body null, default headers
\* (acao: the Access-Control-Allow-Origin header, "none" when absent; allow:
\* Access-Control-Allow-Methods and -Headers are set; sec: security headers)
NewRes ==
  [status |-> 200, body |-> "null", acao |-> "none", allow |-> FALSE, sec |-> FALSE]

NoRequest ==
  [pc |-> "idle", in |-> "none", res |-> NewRes, chainRan |-> FALSE, handled |-> FALSE,
   terminal |-> "none", handlerCalled |-> FALSE, sent |-> FALSE,
   outcome |-> "none", ipRank |-> 0, resp |-> NewRes, ran |-> <<>>]

\* env.CORS_ORIGIN: one configured origin, or the wildcard the worker
\* falls back to (z.string().default('*'))
CorsOrigins == {"site", "*"}

\* env.EMAIL_PROVIDER, env.EMAIL_SERVICE, and whether env.MAILCHANNELS_API_KEY
\* is set
EmailProviders == {"mailchannels", "nodemailer"}

EmailServices == {"gmail", "mailchannels"}

Envs ==
  [CORS_ORIGIN : CorsOrigins, EMAIL_PROVIDER : EmailProviders,
   EMAIL_SERVICE : EmailServices, MAILCHANNELS_API_KEY : BOOLEAN]

DefaultEnv ==
  [CORS_ORIGIN |-> "*", EMAIL_PROVIDER |-> "nodemailer", EMAIL_SERVICE |-> "gmail",
   MAILCHANNELS_API_KEY |-> FALSE]

\* WorkerResponseAdapter: the fields of a new adapter. Only the X-Test header
\* is followed; Content-Type is set once and for all by the field initializer.
Statuses == {200, 204}
HeaderValues == {"unset", "a"}
BodyValues == {"null", "b1"}
Listeners == {1, 2}

NewWorkerResponse ==
  [statusCode |-> 200, header |-> "unset", body |-> "null",
   listeners |-> [l \in Listeners |-> "no"],
   calls |-> [l \in Listeners |-> 0],
   finalized |-> FALSE, emits |-> 0, outputs |-> <<>>]

ResponseIdle == wres = NewWorkerResponse

WorkerStart ==
  /\ ResponseIdle
  /\ req = NoRequest
  /\ preflightHandled = FALSE
  /\ ipSeen = [i \in Ips |-> 0]

WorkerIdle ==
  /\ WorkerStart
  /\ env = DefaultEnv

(***************************************************************************)
(* EmailService, the provider factory and the providers                    *)
(***************************************************************************)
\* bounds of EmailRequestSchema: name min/max, email max, message min/max
NameMin == 2
NameMax == 50
EmailMax == 100
MessageMin == 10
MessageMax == 1000

\* a string field of a submission: whether the key is present, the length
\* of the string as submitted, and whether it has the form the schema asks
\* for (the name's character class, the address format)
Field(lens) == [present : {TRUE}, len : lens, form : BOOLEAN]

Missing == [present |-> FALSE, len |-> 0, form |-> FALSE]

Submissions ==
  [name    : Field({NameMin - 1, NameMin, NameMax, NameMax + 1}) \cup {Missing},
   email   : Field({EmailMax - 1, EmailMax, EmailMax + 1}) \cup {Missing},
   message : [present : {TRUE}, form : {TRUE},
              len : {MessageMin - 1, MessageMin, MessageMax, MessageMax + 1}]
                \cup {Missing},
   browserInfo : {"absent", "ok", "bad"}]

\* EmailRequestSchema.parseAsync(data) succeeds
SchemaOkAlways(d) == TRUE

SchemaOk(d) ==
  /\ d.name.present /\ d.name.len >= NameMin /\ d.name.len <= NameMax /\ d.name.form
  /\ d.email.present /\ d.email.form /\ d.email.len <= EmailMax
  /\ d.message.present /\ d.message.len >= MessageMin /\ d.message.len <= MessageMax
  /\ d.browserInfo # "bad"

\* thrown values: an Error of some class with its message, or a value that
\* is not an Error
NoError == [class |-> "none", message |-> "none"]

Err(class, message) == [class |-> class, message |-> message]

ZodErr == Err("ZodError", "issues")

Messages == {"m1", "m2"}

\* error instanceof Error
InstanceOfError(e) == e.class \in {"Error", "EmailError", "ZodError"}

\* error instanceof EmailError
InstanceOfEmailErrorNever(e) == FALSE

InstanceOfEmailError(e) == e.class = "EmailError"

\* error instanceof Error ? error : new Error('Unknown error occurred')
ErrorInstance(e) ==
  IF InstanceOfError(e) THEN e ELSE Err("Error", "Unknown error occurred")

\* what the try block of a provider's sendEmail runs into: nothing, an
\* EmailError (NodemailerProvider.initialize, createWorkerTransport), another
\* Error (authentication check, API error, transport failure) or a thrown
\* value that is not an Error
Inners ==
  {[kind |-> "ok", error |-> NoError]}
    \cup {[kind |-> "throw", error |-> Err(c, m)] : c \in {"Error", "EmailError"}, m \in Messages}
    \cup {[kind |-> "throw", error |-> Err("nonError", "none")]}

InnersOf(provider) ==
  IF provider = "Nodemailer" THEN Inners
  ELSE {i \in Inners : i.error.class # "EmailError"}

\* provider.sendEmail: the try block and its catch
ProviderSendEmail(inner) ==
  IF inner.kind = "ok"
  THEN [kind |-> "return", success |-> TRUE, messageId |-> "id", error |-> NoError]
  ELSE IF InstanceOfEmailError(inner.error)
  THEN [kind |-> "throw", success |-> FALSE, messageId |-> "null", error |-> inner.error]
  ELSE [kind |-> "return", success |-> FALSE, messageId |-> "null",
        error |-> ErrorInstance(inner.error)]

\* errorInstance.message, given to new EmailError(...)
WrapMessageLost(e) == "Unknown error occurred"

WrapMessage(e) == ErrorInstance(e).message

\* EmailService.sendEmail, catch (error)
ServiceCatch(e) ==
  IF InstanceOfEmailError(e) THEN [kind |-> "rejected", success |-> FALSE, error |-> e]
  ELSE [kind |-> "rejected", success |-> FALSE, error |-> Err("EmailError", WrapMessage(e))]

\* EmailService.sendEmail after `await provider.sendEmail(...)`
ServiceAfterProvider(pres) ==
  IF pres.kind = "throw" THEN ServiceCatch(pres.error)
  ELSE IF pres.success
  THEN [kind |-> "resolved", success |-> TRUE, error |-> NoError]
  ELSE ServiceCatch(IF pres.error # NoError THEN pres.error
                    ELSE Err("Error", "Unknown error during email sending"))

\* EmailProviderFactory.getProvider: providerType and cacheKey
ProviderType(e) ==
  IF e.EMAIL_PROVIDER = "mailchannels" THEN "mailchannels" ELSE e.EMAIL_SERVICE

CacheKeys == EmailServices \X BOOLEAN

CacheKey(e, useWorker) == <<ProviderType(e), useWorker>>

\* EmailProviderFactory.getProvider: the switch over providerType
CreateProvider(e, useWorker) ==
  IF ProviderType(e) = "mailchannels"
  THEN IF e.MAILCHANNELS_API_KEY THEN "ApiKey"
       ELSE IF useWorker THEN "Worker" ELSE "Legacy"
  ELSE IF useWorker
       THEN IF e.MAILCHANNELS_API_KEY THEN "ApiKey" ELSE "Worker"
       ELSE "Nodemailer"

NoSubmission ==
  [name |-> Missing, email |-> Missing, message |-> Missing, browserInfo |-> "absent"]

NoCall ==
  [pc |-> "idle", data |-> NoSubmission, useWorker |-> FALSE, provider |-> "none",
   calls |-> 0, inner |-> [kind |-> "none", error |-> NoError],
   pres |-> [kind |-> "none", success |-> FALSE, messageId |-> "null", error |-> NoError],
   result |-> [kind |-> "none", success |-> FALSE, error |-> NoError]]

\* a provider instance: its class and its identity; NoProvider is no instance
NoProvider == [kind |-> "none", id |-> 0]

EmptyCache == [k \in CacheKeys |-> NoProvider]

\* the part of env that getProvider reads
FactoryConfig(e) ==
  [EMAIL_PROVIDER |-> e.EMAIL_PROVIDER, EMAIL_SERVICE |-> e.EMAIL_SERVICE,
   MAILCHANNELS_API_KEY |-> e.MAILCHANNELS_API_KEY]

\* provider.initialize() throws: only NodemailerProvider.initialize does
\* any work; the MailChannels providers resolve at once
InitializeFails(kind, initOk) == kind = "Nodemailer" /\ ~initOk

\* this.providerCache.set(cacheKey, provider)
CacheSetDropped(cache, key, provider) == cache

CacheSet(cache, key, provider) == [cache EXCEPT ![key] = provider]

\* getProvider, catch (error) around provider.initialize(): log and rethrow
OnInitFailureFallback(cache, nextId) ==
  [outcome |-> "returned", kind |-> "Worker", id |-> nextId, hit |-> FALSE,
   constructed |-> 2, error |-> NoError, cache |-> cache, nextId |-> nextId + 1]

OnInitFailure(cache, nextId) ==
  [outcome |-> "threw", kind |-> "none", id |-> 0, hit |-> FALSE,
   constructed |-> 1, error |-> Err("EmailError", "init"),
   cache |-> cache, nextId |-> nextId]

\* getProvider with providerCache.set moved before `await initialize()`
getProviderCacheFirst(e, cache, useWorker, initOk, nextId) ==
  LET key == CacheKey(e, useWorker)
      created == CreateProvider(e, useWorker)
      stored == CacheSet(cache, key, [kind |-> created, id |-> nextId])
  IN IF cache[key] # NoProvider
     THEN [outcome |-> "returned", kind |-> cache[key].kind, id |-> cache[key].id,
           hit |-> TRUE, constructed |-> 0, error |-> NoError,
           cache |-> cache, nextId |-> nextId]
     ELSE IF InitializeFails(created, initOk)
     THEN [outcome |-> "threw", kind |-> "none", id |-> 0, hit |-> FALSE,
           constructed |-> 1, error |-> Err("EmailError", "init"),
           cache |-> stored, nextId |-> nextId + 1]
     ELSE [outcome |-> "returned", kind |-> created, id |-> nextId,
           hit |-> FALSE, constructed |-> 1, error |-> NoError,
           cache |-> stored, nextId |-> nextId + 1]

\* EmailProviderFactory.getProvider(useWorker) under configuration e: what
\* the caller gets, the cache afterwards, and the identity the next
\* instance that is handed out will have (an instance whose initialize()
\* failed is dropped with the call and takes no identity with it)
getProvider(e, cache, useWorker, initOk, nextId) ==
  LET key == CacheKey(e, useWorker)
      created == CreateProvider(e, useWorker)
  IN IF cache[key] # NoProvider
     THEN [outcome |-> "returned", kind |-> cache[key].kind, id |-> cache[key].id,
           hit |-> TRUE, constructed |-> 0, error |-> NoError,
           cache |-> cache, nextId |-> nextId]
     ELSE IF InitializeFails(created, initOk)
     THEN OnInitFailure(cache, nextId)
     ELSE [outcome |-> "returned", kind |-> created, id |-> nextId,
           hit |-> FALSE, constructed |-> 1, error |-> NoError,
           cache |-> CacheSet(cache, key, [kind |-> created, id |-> nextId]),
           nextId |-> nextId + 1]

\* a getProvider call as its caller saw it
NoGet ==
  [config |-> FactoryConfig(DefaultEnv), useWorker |-> FALSE, outcome |-> "none",
   kind |-> "none", id |-> 0, hit |-> FALSE, constructed |-> 0, error |-> NoError,
   clearedBefore |-> FALSE]

\* no call yet; `cleared` says clearCache() ran since the last call, and a
\* call's clearedBefore that it ran between the call before it and this one
NoFactory == [nextId |-> 1, prev |-> NoGet, last |-> NoGet, cleared |-> FALSE]

ServiceIdle ==
  /\ svc = NoCall
  /\ providerCache = EmptyCache
  /\ fac = NoFactory

----------------------------------------------------------------------------
\* One provider instance (MailChannelsApiKeyProvider, MailChannelsWorker-
\* Provider or NodemailerProvider), its fields, and the sendEmail calls made
\* on it.

ProviderKinds == {"ApiKey", "Worker", "Nodemailer"}

\* `this.apiKey.length < 8`
MinKeyLength == 8

\* API keys by what validateAuthentication looks at: the length, and whether
\* every character is printable ASCII (\x20-\x7E)
ApiKeys ==
  {[len |-> 0, chars |-> "printable"], [len |-> 5, chars |-> "printable"],
   [len |-> 8, chars |-> "printable"], [len |-> 8, chars |-> "control"],
   [len |-> 20, chars |-> "nonascii"], [len |-> 20, chars |-> "printable"]}

NoKey == [len |-> 0, chars |-> "printable"]

\* validateAuthentication(): "ok", or the Error it throws
validateAuthenticationSkipped(kind, key) == "ok"

validateAuthentication(kind, key) ==
  IF kind # "ApiKey" THEN "ok"
  ELSE IF key.len = 0 THEN "missing"
  ELSE IF key.len < MinKeyLength \/ key.chars # "printable" THEN "malformed"
  ELSE "ok"

\* sender configuration: MAILCHANNELS_SENDER_EMAIL (an address, by its
\* domain), MAILCHANNELS_SENDER_DOMAIN, and CORS_ORIGIN as a URL with a
\* scheme, a bare host, or a string `new URL` rejects
SenderEmails == {"unset", "d1"}
SenderDomains == {"unset", "d2"}
SenderCorsOrigins == {"https://site", "site", "unparseable"}

SenderConfigs ==
  [email : SenderEmails, domain : SenderDomains, cors : SenderCorsOrigins]

DefaultSender == [email |-> "unset", domain |-> "unset", cors |-> "site"]

\* new URL(cors.startsWith('http') ? cors : `https://${cors}`).hostname
CorsHostname(cors) ==
  IF cors = "unparseable" THEN "throws" ELSE "site"

NoAddress == [local |-> "none", domain |-> "none"]

\* getSenderInfo(): the sender address and DKIM domain, or a TypeError from
\* new URL, which is evaluated whenever no sender domain is configured
getSenderInfo(cfg) ==
  LET domain1 == IF cfg.domain # "unset" THEN cfg.domain
                 ELSE CorsHostname(cfg.cors)
  IN IF domain1 = "throws"
     THEN [ok |-> FALSE, senderEmail |-> NoAddress, senderDomain |-> "none"]
     ELSE IF cfg.email # "unset"
     THEN [ok |-> TRUE, senderEmail |-> [local |-> "configured", domain |-> cfg.email],
           senderDomain |-> cfg.email]
     ELSE [ok |-> TRUE, senderEmail |-> [local |-> "noreply", domain |-> domain1],
           senderDomain |-> domain1]

\* validated submissions handed to sendEmail, by their recipient
SendData == {"s1", "s2"}

Calls == 1..MaxCalls

NoPayload == [to |-> "none", from |-> NoAddress, auth |-> "none"]

NoResult == [success |-> FALSE, messageId |-> 0, error |-> "none"]

\* the local variables of one sendEmail invocation
NoSend == [pc |-> "idle", data |-> "none", result |-> NoResult]

\* the locals of invocation c are its own (const { name, email, message },
\* mailchannelsPayload, mailOptions)
SetLocalShared(calls, c, l) == [d \in DOMAIN calls |-> l]

SetLocal(calls, c, l) == [calls EXCEPT ![c] = l]

\* NodemailerProvider.initialize: `if (this.isInitialized) return`
AlreadyInitializedNever(p) == FALSE

AlreadyInitialized(p) == p.isInitialized

\* a new provider instance of some class: NodemailerProvider has
\* transporter = null (0) and isInitialized = false. transports, verifies
\* and fetches count createOAuth2Transport(), transporter.verify() and
\* requests to the relay; submitted and wire record, per call, the
\* submission it was given and the request it put on the wire.
NewProvider(kind, key, cfg) ==
  [kind |-> kind, apiKey |-> key, cfg |-> cfg,
   isInitialized |-> FALSE, transporter |-> 0,
   transports |-> 0, verifies |-> 0, inits |-> 0, succeeded |-> FALSE,
   calls |-> [c \in Calls |-> NoSend],
   submitted |-> [c \in Calls |-> "none"],
   wire |-> [c \in Calls |-> NoPayload],
   fetches |-> 0]

\* getProvider calls in flight: none
NoPending ==
  [nextId |-> 1,
   callers |-> [c \in 1..MaxCallers |->
                  [pc |-> "idle", useWorker |-> FALSE, created |-> NoProvider,
                   got |-> NoProvider, constructed |-> 0]]]

ProviderIdle ==
  /\ prov = NewProvider("Worker", NoKey, DefaultSender)
  /\ pend = NoPending

\* the rate-limit state of a run that does not exercise the limiters
RateIdle ==
  /\ now = StartTime
  /\ emailRateLimitMap = EmptyMap
  /\ ipLimitMap = EmptyMap
  /\ limiter = "none"
  /\ hist = <<>>

(***************************************************************************)
(* Actions of SpecRate                                                     *)
(***************************************************************************)
\* time passes between two requests
Tick ==
  /\ now < EndTime
  /\ now' = now + TickMs
  /\ UNCHANGED <<prov, pend, wres, emailRateLimitMap, ipLimitMap, limiter, hist, chainVars, workerVars, serviceVars>>

\* one request with body.email = e goes through commonEmailRateLimiter
EmailLimit(e) ==
  /\ limiter = "email"
  /\ Len(hist) < MaxReq
  /\ LET key == toLowerCase(e)
         d == commonEmailRateLimiter(emailRateLimitMap, key, now)
     IN /\ emailRateLimitMap' = d.map
        /\ hist' = Append(hist, HistEntry(key, now, d))
  /\ UNCHANGED <<prov, pend, wres, now, ipLimitMap, limiter, chainVars, workerVars, serviceVars>>

\* one request with req.ip = ip goes through limiter.middleware
IpLimit(ip) ==
  /\ limiter = "ip"
  /\ Len(hist) < MaxReq
  /\ LET d == CommonRateLimiterMiddleware(ipLimitMap, ip, now)
     IN /\ ipLimitMap' = d.map
        /\ hist' = Append(hist, HistEntry(ip, now, d))
  /\ UNCHANGED <<prov, pend, wres, now, emailRateLimitMap, limiter, chainVars, workerVars, serviceVars>>

ChainIdle ==
  /\ mws = <<>>
  /\ chain = ChainInit(0)
  /\ runner = "idle"
  /\ result = "none"

InitRate ==
  /\ ProviderIdle
  /\ now = StartTime
  /\ emailRateLimitMap = EmptyMap
  /\ ipLimitMap = EmptyMap
  /\ limiter \in {"email", "ip"}
  /\ hist = <<>>
  /\ ChainIdle
  /\ WorkerIdle
  /\ ServiceIdle

NextRate ==
  \/ Tick
  \/ \E e \in Emails : EmailLimit(e)
  \/ \E ip \in Ips : IpLimit(ip)

SpecRate == InitRate /\ [][NextRate]_vars

(***************************************************************************)
(* The worker entry point                                                  *)
(***************************************************************************)
\* corsOptions.origin: env.CORS_ORIGIN of the deployment
CorsOrigin == env.CORS_ORIGIN

Methods == {"GET", "POST", "OPTIONS"}
Paths == {"/api/send-email", "/api/health", "/other"}
Origins == {"none", "site", "evil"}

\* request bodies: "valid" satisfies every validator, "loose" satisfies
\* commonValidateEmailRequest but not the shared EmailRequestSchema (a name
\* with digits), "invalid" fails both (a short message), "nonjson" is not
\* parseable, "none" is no body
Bodies == {"valid", "loose", "invalid", "nonjson"}

\* fetch: request.method === 'POST' && url includes the email path
IsDirectPost(r) == r.method = "POST" /\ r.path = "/api/send-email"

\* submissions to the email endpoint, which fetch handles itself
DirectRequests ==
  {[method |-> "POST", path |-> "/api/send-email", origin |-> o, hdrsOk |-> h,
    body |-> b, email |-> e, ip |-> "ip1"] :
      o \in Origins, h \in BOOLEAN, b \in Bodies, e \in {"A@x", "b@x"}}

\* every other request, which fetch hands to processRequest
OtherRequests ==
  {[method |-> mp[1], path |-> mp[2], origin |-> o, hdrsOk |-> h,
    body |-> "none", email |-> "none", ip |-> i] :
      mp \in {<<"GET", "/api/health">>, <<"GET", "/other">>,
               <<"OPTIONS", "/api/send-email">>, <<"POST", "/other">>},
      o \in Origins, h \in BOOLEAN, i \in Ips}

Requests == DirectRequests \cup OtherRequests

\* isOriginAllowed(requestOrigin, corsOptions.origin)
isOriginAllowed(requestOrigin, allowedOrigin) ==
  IF requestOrigin = "none" THEN FALSE
  ELSE IF allowedOrigin = "*" THEN TRUE
  ELSE requestOrigin = allowedOrigin

\* res.status(code).json(body)
Json(res, code, body) == [res EXCEPT !.status = code, !.body = body]

(***************************************************************************)
(* The concrete middleware.  Each takes and returns a record st with       *)
(*   res   - the response adapter                                          *)
(*   emap  - emailRateLimitMap                                             *)
(*   pre   - context.preflightHandled                                      *)
(*   next  - whether the middleware called next()                          *)
(*   by    - the middleware that wrote a terminal response                 *)
(*   rank  - requests of this IP the general limiter has been asked about  *)
(***************************************************************************)
\* the value corsMiddleware gives Access-Control-Allow-Origin
AllowOriginHeaderWildcard(configured, requestOrigin) == "*"

AllowOriginHeader(configured, requestOrigin) ==
  IF configured = "*" THEN "*" ELSE requestOrigin

corsMiddleware(r, st) ==
  LET pre1 == st.pre \/ r.method = "OPTIONS"
      allowed == isOriginAllowed(r.origin, CorsOrigin)
      acao == AllowOriginHeader(CorsOrigin, r.origin)
  IN IF r.method = "OPTIONS"
     THEN IF allowed
          THEN [st EXCEPT !.pre = pre1, !.next = FALSE,
                          !.res = [@ EXCEPT !.acao = acao, !.allow = TRUE,
                                            !.status = 204, !.body = "null"]]
          ELSE [st EXCEPT !.pre = pre1, !.next = FALSE, !.by = "cors",
                          !.res = Json(@, 403, "cors403")]
     ELSE IF allowed
          THEN [st EXCEPT !.pre = pre1, !.next = TRUE, !.res = [@ EXCEPT !.acao = acao]]
          ELSE [st EXCEPT !.pre = pre1, !.next = TRUE]

securityMiddleware(r, st) ==
  IF r.method = "OPTIONS" /\ st.pre
  THEN [st EXCEPT !.next = TRUE]
  ELSE LET st1 == [st EXCEPT !.res = [@ EXCEPT !.sec = TRUE]]
       IN IF r.method = "OPTIONS" THEN [st1 EXCEPT !.next = TRUE]
          ELSE IF ~r.hdrsOk
          THEN [st1 EXCEPT !.next = FALSE, !.by = "security",
                           !.res = Json(@, 403, "sec403")]
          ELSE [st1 EXCEPT !.next = TRUE]

\* commonEmailRateLimiter as a link of a chain
emailRateLimiterMw(r, st) ==
  IF r.body \in {"none", "nonjson"} \/ r.email = "none"
  THEN [st EXCEPT !.next = TRUE]
  ELSE LET d == commonEmailRateLimiter(st.emap, toLowerCase(r.email), now)
       IN IF d.ok
          THEN [st EXCEPT !.emap = d.map, !.next = TRUE]
          ELSE [st EXCEPT !.emap = d.map, !.next = FALSE, !.by = "ratelimit",
                          !.res = Json(@, 429, "rate429")]

commonValidateEmailRequest(r, st) ==
  IF r.body \in {"valid", "loose"}
  THEN [st EXCEPT !.next = TRUE]
  ELSE [st EXCEPT !.next = FALSE, !.by = "validate", !.res = Json(@, 400, "val400")]

requestLoggingMiddleware(r, st) == [st EXCEPT !.next = TRUE]

\* createWorkerRateLimiter(windowMs, max): a new CommonRateLimiter, whose
\* ipLimitMap starts empty, built while the middlewares array is built
generalRateLimiterMw(r, st) ==
  LET d == CommonRateLimiterMiddleware(EmptyMap, r.ip, now)
  IN IF d.ok
     THEN [st EXCEPT !.next = TRUE, !.rank = ipSeen[r.ip] + 1]
     ELSE [st EXCEPT !.next = FALSE, !.by = "ratelimit", !.rank = ipSeen[r.ip] + 1,
                     !.res = Json(@, 429, "rate429")]

ApplyMw(name, r, st) ==
  IF name = "cors" THEN corsMiddleware(r, st)
  ELSE IF name = "security" THEN securityMiddleware(r, st)
  ELSE IF name = "emailRate" THEN emailRateLimiterMw(r, st)
  ELSE IF name = "validate" THEN commonValidateEmailRequest(r, st)
  ELSE IF name = "logging" THEN requestLoggingMiddleware(r, st)
  ELSE generalRateLimiterMw(r, st)

\* next() over synchronous middleware that end with `next(); return`: the
\* middleware at index runs, and calls next() or does not
RECURSIVE WorkerNext(_, _, _, _)
WorkerNext(names, idx, r, st) ==
  IF HasMiddleware(idx, Len(names))
  THEN LET st1 == ApplyMw(names[idx + 1], r,
                            [st EXCEPT !.ran = Append(@, names[idx + 1])])
       IN IF st1.next THEN WorkerNext(names, idx + 1, r, st1) ELSE st1
  ELSE st

\* runMiddlewareChain(req, res, names): the state after the chain and the
\* boolean it resolves to (no middleware of the worker throws)
RunChain(names, r, res) ==
  LET st == WorkerNext(names, 0, r,
               [res |-> res, emap |-> emailRateLimitMap, pre |-> preflightHandled,
                next |-> FALSE, by |-> "none", rank |-> 0, ran |-> <<>>])
  IN [st |-> st, handled |-> ChainReturn(st.res.body)]

\* fetch, catch (e): new Response(..., {status: 400, ... CORS headers}); the
\* body "failed" is {success: false, message: 'Failed to send email: ' +
\* e.message}, which has no error code and quotes the exception
DirectCatchResponse(r) ==
  [status |-> 400, body |-> "failed",
   acao |-> IF r.origin = "none" THEN "*" ELSE r.origin, allow |-> TRUE,
   sec |-> FALSE]

\* whether a response body is {success: false, message, error: {code, ...}}:
\* the bodies written by corsMiddleware, securityMiddleware, the rate
\* limiters and notFoundHandler name an error code; the body of fetch's
\* catch ("failed") and that of commonValidateEmailRequest ("val400") are
\* {success: false, message} only
HasErrorCode(body) == body \in {"cors403", "sec403", "rate429", "notfound"}

\* WorkerResponseAdapter.send()
Send(res) ==
  IF res.status \in {101, 204, 205, 304}
  THEN [res EXCEPT !.body = "empty"]
  ELSE res

(***************************************************************************)
(* Actions of SpecWorker                                                   *)
(***************************************************************************)
\* fetch is called with a request
Arrive(r) ==
  /\ req.pc = "idle"
  /\ IsDirectPost(r) \/ ipSeen[r.ip] <= RateMax
  /\ req' = [NoRequest EXCEPT !.in = r,
                              !.pc = IF IsDirectPost(r) THEN "direct" ELSE "process"]
  /\ UNCHANGED <<prov, pend, wres, preflightHandled, ipSeen, env, chainVars, rateVars, serviceVars>>

\* fetch, direct POST branch: await request.json()
DirectParse ==
  /\ req.pc = "direct"
  /\ req' = IF req.in.body = "nonjson"
            THEN [req EXCEPT !.pc = "responded", !.resp = DirectCatchResponse(req.in)]
            ELSE [req EXCEPT !.pc = "directChain"]
  /\ UNCHANGED <<prov, pend, wres, preflightHandled, ipSeen, env, chainVars, rateVars, serviceVars>>

\* fetch, direct POST branch: the middleware chain and the test of its result
DirectChain ==
  /\ req.pc = "directChain"
  /\ LET c == RunChain(<<"cors", "security", "emailRate", "validate">>, req.in, req.res)
     IN /\ req' = [req EXCEPT !.res = c.st.res, !.chainRan = TRUE,
                              !.ran = c.st.ran,
                              !.handled = c.handled, !.terminal = c.st.by,
                              !.pc = IF ~c.handled THEN "handler" ELSE "send"]
        /\ emailRateLimitMap' = c.st.emap
        /\ preflightHandled' = c.st.pre
  /\ UNCHANGED <<prov, pend, wres, ipSeen, env, chainVars, now, ipLimitMap, limiter, hist, serviceVars>>

\* emailHandler up to the provider call: EmailRequestSchema.parseAsync, then
\* EmailService.sendEmail hands the submission to provider.sendEmail
EmailHandlerStart ==
  /\ req.pc = "handler"
  /\ req' = IF req.in.body = "valid"
            THEN [req EXCEPT !.handlerCalled = TRUE, !.sent = TRUE, !.pc = "sending"]
            ELSE [req EXCEPT !.handlerCalled = TRUE, !.pc = "responded",
                             !.resp = DirectCatchResponse(req.in)]
  /\ UNCHANGED <<prov, pend, wres, preflightHandled, ipSeen, env, chainVars, rateVars, serviceVars>>

\* the provider call settles; emailHandler writes 200 or throws EmailError
ProviderReply(outcome) ==
  /\ req.pc = "sending"
  /\ req' = IF outcome = "ok"
            THEN [req EXCEPT !.outcome = outcome, !.res = Json(@, 200, "sent"),
                             !.pc = "send"]
            ELSE [req EXCEPT !.outcome = outcome, !.pc = "responded",
                             !.resp = DirectCatchResponse(req.in)]
  /\ UNCHANGED <<prov, pend, wres, preflightHandled, ipSeen, env, chainVars, rateVars, serviceVars>>

\* return res.send()
SendResponse ==
  /\ req.pc = "send"
  /\ req' = [req EXCEPT !.pc = "responded", !.resp = Send(req.res)]
  /\ UNCHANGED <<prov, pend, wres, preflightHandled, ipSeen, env, chainVars, rateVars, serviceVars>>

\* processRequest: the common chain, then the route
ProcessChain ==
  /\ req.pc = "process"
  /\ LET r == req.in
         c == RunChain(<<"cors", "logging", "security", "general">>, r, req.res)
         res1 == c.st.res
         routed ==
           IF r.path = "/api/health" /\ r.method = "GET"
           THEN Send(Json(res1, 200, "health"))
           ELSE Send(Json(res1, 404, "notfound"))
     IN /\ req' = [req EXCEPT
               !.res = res1, !.chainRan = TRUE, !.handled = c.handled,
               !.ran = c.st.ran,
               !.terminal = c.st.by,
               !.ipRank = c.st.rank, !.pc = "responded",
               !.resp = IF c.handled THEN Send(res1)
                        ELSE IF r.method = "OPTIONS"
                        THEN [status |-> 204, body |-> "empty", acao |-> "none",
                              allow |-> FALSE, sec |-> FALSE]
                        ELSE routed]
        /\ preflightHandled' = c.st.pre
        /\ ipSeen' = IF c.st.rank > 0 THEN [ipSeen EXCEPT ![r.ip] = c.st.rank] ELSE ipSeen
  /\ UNCHANGED <<prov, pend, wres, env, chainVars, rateVars, serviceVars>>

\* the response has gone out; the worker takes the next request
Finish ==
  /\ req.pc = "responded"
  /\ req' = NoRequest
  /\ UNCHANGED <<prov, pend, wres, preflightHandled, ipSeen, env, chainVars, rateVars, serviceVars>>

InitWorker ==
  /\ ProviderIdle
  /\ WorkerStart
  /\ env \in {[DefaultEnv EXCEPT !.CORS_ORIGIN = o] : o \in CorsOrigins}
  /\ ChainIdle
  /\ RateIdle
  /\ ServiceIdle

NextWorker ==
  \/ \E r \in Requests : Arrive(r)
  \/ DirectParse
  \/ DirectChain
  \/ EmailHandlerStart
  \/ \E o \in {"ok", "fail"} : ProviderReply(o)
  \/ SendResponse
  \/ ProcessChain
  \/ Finish

SpecWorker == InitWorker /\ [][NextWorker]_vars

(***************************************************************************)
(* Actions of SpecChain                                                    *)
(***************************************************************************)
\* runMiddlewareChain is called: try { await next(); ...
Start ==
  /\ runner = "init"
  /\ chain' = CallNext(chain)
  /\ runner' = "awaiting"
  /\ UNCHANGED <<prov, pend, wres, mws, result, rateVars, workerVars, serviceVars>>

\* the I/O an async middleware awaits completes (a macrotask)
IOComplete(i) ==
  /\ chain.mstate[i] = "io"
  /\ ~MicrotaskPending
  /\ chain' = MwBody(chain, i)
  /\ UNCHANGED <<prov, pend, wres, mws, runner, result, rateVars, workerVars, serviceVars>>

\* `await middleware(req, res, next)` inside next() resumes
ResumeNext(j) ==
  /\ chain.nstate[j] = "pending"
  /\ chain.mstate[j] \in {"done", "threw"}
  /\ chain' = IF chain.mstate[j] = "done"
              THEN [chain EXCEPT !.nstate[j] = "resolved"]
              ELSE [chain EXCEPT !.nstate[j] = "rejected",
                                 !.unhandled = @ \/ ~NextAwaited(j)]
  /\ UNCHANGED <<prov, pend, wres, mws, runner, result, rateVars, workerVars, serviceVars>>

\* a middleware suspended on the promise of next() resumes
ResumeMw(i) ==
  /\ chain.mstate[i] = "awaitNext"
  /\ chain.nstate[i + 1] \in {"resolved", "rejected"}
  /\ chain' = IF ~mws[i].async
              THEN \* the promise a synchronous middleware returned settles
                   [chain EXCEPT !.mstate[i] =
                       IF chain.nstate[i + 1] = "rejected" THEN "threw" ELSE "done"]
              ELSE IF chain.nstate[i + 1] = "rejected"
              THEN MwFinish(chain, i, FALSE)
              ELSE MwFinish([chain EXCEPT !.log = Append(@, <<"post", i>>)], i, TRUE)
  /\ UNCHANGED <<prov, pend, wres, mws, runner, result, rateVars, workerVars, serviceVars>>

\* `await next()` in runMiddlewareChain resumes: return or catch
RunnerResume ==
  /\ runner = "awaiting"
  /\ chain.nstate[1] \in {"resolved", "rejected"}
  /\ IF chain.nstate[1] = "resolved"
     THEN /\ result' = ChainReturn(chain.body)
          /\ UNCHANGED chain
     ELSE /\ chain' = [chain EXCEPT
                 !.status = createErrorResponse(chain.thrown).status,
                 !.body = "error"]
          /\ result' = TRUE
  /\ runner' = "returned"
  /\ UNCHANGED <<prov, pend, wres, mws, rateVars, workerVars, serviceVars>>

InitChain ==
  /\ ProviderIdle
  /\ mws \in UNION {[1..n -> MwKinds] : n \in 1..MaxChain}
  /\ chain = ChainInit(Len(mws))
  /\ runner = "init"
  /\ result = "none"
  /\ RateIdle
  /\ WorkerIdle
  /\ ServiceIdle

NextChain ==
  \/ Start
  \/ \E i \in 1..Len(mws) : IOComplete(i)
  \/ \E j \in 1..Len(mws) : ResumeNext(j)
  \/ \E i \in 1..Len(mws) : ResumeMw(i)
  \/ RunnerResume

SpecChain == InitChain /\ [][NextChain]_vars

(***************************************************************************)
(* Actions of SpecService                                                  *)
(***************************************************************************)
\* sendEmail(data, ipAddress, isWorkerEnvironment) up to the end of
\* `await EmailRequestSchema.parseAsync(data)`
SendEmailCall(d, w) ==
  /\ svc.pc = "idle"
  /\ svc' = IF SchemaOk(d)
            THEN [NoCall EXCEPT !.pc = "getProvider", !.data = d, !.useWorker = w]
            ELSE [NoCall EXCEPT !.pc = "done", !.data = d, !.useWorker = w,
                                !.result = ServiceCatch(ZodErr)]
  /\ UNCHANGED <<prov, pend, wres, providerCache, fac, chainVars, rateVars, workerVars>>

\* `await EmailProviderFactory.getProvider(isWorkerEnvironment)`: a cached
\* provider, or a new one that is initialized and cached (initOk: whether
\* NodemailerProvider.initialize succeeds; the others have nothing to do)
GetProvider(initOk) ==
  /\ svc.pc = "getProvider"
  /\ LET g == getProvider(env, providerCache, svc.useWorker, initOk, fac.nextId)
         fails == /\ providerCache[CacheKey(env, svc.useWorker)] = NoProvider
                  /\ CreateProvider(env, svc.useWorker) = "Nodemailer"
     IN /\ initOk \/ fails
        /\ svc' = IF g.outcome = "threw"
                  THEN [svc EXCEPT !.pc = "done", !.result = ServiceCatch(g.error)]
                  ELSE [svc EXCEPT !.pc = "sending", !.provider = g.kind]
        /\ providerCache' = g.cache
        /\ fac' = [fac EXCEPT !.nextId = g.nextId]
  /\ UNCHANGED <<prov, pend, wres, chainVars, rateVars, workerVars>>

\* `await provider.sendEmail(validatedData, ...)` and the rest of sendEmail
ProviderSend(inner) ==
  /\ svc.pc = "sending"
  /\ inner \in InnersOf(svc.provider)
  /\ LET pres == ProviderSendEmail(inner)
     IN svc' = [svc EXCEPT !.pc = "done", !.calls = @ + 1, !.inner = inner,
                           !.pres = pres, !.result = ServiceAfterProvider(pres)]
  /\ UNCHANGED <<prov, pend, wres, providerCache, fac, chainVars, rateVars, workerVars>>

\* the caller has the outcome; the service takes the next call
ServiceReturn ==
  /\ svc.pc = "done"
  /\ svc' = NoCall
  /\ UNCHANGED <<prov, pend, wres, providerCache, fac, chainVars, rateVars, workerVars>>

InitService ==
  /\ ProviderIdle
  /\ svc = NoCall
  /\ providerCache = EmptyCache
  /\ fac = NoFactory
  /\ WorkerStart
  /\ env \in {e \in Envs : e.CORS_ORIGIN = DefaultEnv.CORS_ORIGIN}
  /\ ChainIdle
  /\ RateIdle

NextService ==
  \/ \E d \in Submissions, w \in BOOLEAN : SendEmailCall(d, w)
  \/ \E initOk \in BOOLEAN : GetProvider(initOk)
  \/ \E inner \in Inners : ProviderSend(inner)
  \/ ServiceReturn

SpecService == InitService /\ [][NextService]_vars

----------------------------------------------------------------------------
\* SpecFactory: EmailProviderFactory on its own. getProvider calls run one
\* after the other (each is awaited by its caller), the configuration is
\* replaced between calls as worker fetch does with the env of each request,
\* and clearCache() may run between calls.

\* `await EmailProviderFactory.getProvider(useWorker)`, from the call to the
\* value or the exception its caller gets
GetProviderCall(useWorker, initOk) ==
  /\ fac.nextId <= MaxInstances
  /\ LET g == getProvider(env, providerCache, useWorker, initOk, fac.nextId)
     IN /\ providerCache' = g.cache
        /\ fac' = [nextId |-> g.nextId,
                   prev |-> fac.last,
                   last |-> [config |-> FactoryConfig(env), useWorker |-> useWorker,
                             outcome |-> g.outcome, kind |-> g.kind, id |-> g.id,
                             hit |-> g.hit, constructed |-> g.constructed,
                             error |-> g.error, clearedBefore |-> fac.cleared],
                   cleared |-> FALSE]
  /\ UNCHANGED <<prov, pend, wres, svc, chainVars, rateVars, workerVars>>

\* EmailProviderFactory.clearCache()
ClearCache ==
  /\ providerCache' = EmptyCache
  /\ fac' = [fac EXCEPT !.cleared = TRUE]
  /\ UNCHANGED <<prov, pend, wres, svc, chainVars, rateVars, workerVars>>

\* worker fetch, `setWorkerEnv(env)` / `updateEnv(env)`: the configuration
\* every later read of `env` sees is the one passed with this request
SetWorkerEnv(e) ==
  /\ e # env
  /\ env' = e
  /\ UNCHANGED <<prov, pend, wres, req, preflightHandled, ipSeen, serviceVars, chainVars, rateVars>>

FactoryEnvs == {e \in Envs : e.CORS_ORIGIN = DefaultEnv.CORS_ORIGIN}

InitFactory ==
  /\ ProviderIdle
  /\ ServiceIdle
  /\ WorkerStart
  /\ env \in FactoryEnvs
  /\ ChainIdle
  /\ RateIdle

NextFactory ==
  \/ \E w \in BOOLEAN, initOk \in BOOLEAN : GetProviderCall(w, initOk)
  \/ ClearCache
  \/ \E e \in FactoryEnvs : SetWorkerEnv(e)

SpecFactory == InitFactory /\ [][NextFactory]_vars

(***************************************************************************)
(* Properties of the chain runner (SpecChain)                              *)
(***************************************************************************)
Threw(i) == chain.mstate[i] = "threw"

Finished(i) == chain.mstate[i] \in {"done", "threw"}

\* C1: when runMiddlewareChain has returned and no middleware threw, its
\* result is true exactly when some middleware set a response body on res
\* (true = "a response was already sent", false = "not handled").
C1_ResultTrueIffBodySet ==
  (runner = "returned" /\ \A i \in 1..Len(mws) : ~Threw(i))
     => (result = TRUE <=> chain.body # "null")

\* C4: when a middleware has thrown or its promise rejected, the runner has
\* not let the error escape: once it has returned, res carries the mapped
\* error response, the result is true and no rejection is left unobserved.
C4_ThrowBecomesErrorResponse ==
  (runner = "returned" /\ \E i \in 1..Len(mws) : Threw(i))
     => /\ result = TRUE
        /\ chain.body = "error"
        /\ chain.status = createErrorResponse(chain.thrown).status
        /\ ~chain.unhandled

\* C5: middleware run in list order, one at a time: middleware k+1 is
\* started by middleware k calling next() and by nothing else, and when
\* middleware k carries on after next(), every middleware after it that
\* was started has finished.
C5_StrictlyNested ==
  \A p \in 1..Len(chain.log) :
    LET ev == chain.log[p] IN
      /\ (ev[1] = "start" /\ ev[2] > 1)
            => (p > 1 /\ chain.log[p - 1] = <<"callnext", ev[2] - 1>>)
      /\ ev[1] = "post"
            => \A q \in 1..(p - 1) :
                 (chain.log[q][1] = "start" /\ chain.log[q][2] > ev[2])
                    => \E r \in 1..(p - 1) : chain.log[r] = <<"end", chain.log[q][2]>>

\* C6: a middleware that returns without calling next() ends the chain: no
\* middleware later in the list is ever invoked.
C6_ShortCircuitStopsChain ==
  \A i \in 1..Len(mws) :
    (Finished(i) /\ mws[i].act # "next")
       => \A j \in (i + 1)..Len(mws) : chain.mstate[j] = "idle"

\* a short-circuiting middleware with successors has run and the runner
\* has returned
C6_Witness ==
  /\ runner = "returned"
  /\ \E i \in 1..(Len(mws) - 1) :
        /\ chain.mstate[i] = "done"
        /\ mws[i].act \in {"respond", "silent"}
        /\ i > 1

(***************************************************************************)
(* Properties of the rate limiters (SpecRate)                              *)
(***************************************************************************)
SameKey(p, q) == hist[p].key = hist[q].key

\* the position of request p among the requests of its key
Rank(p) == Cardinality({q \in 1..p : SameKey(p, q)})

\* the first request of the key of request p
First(p) == CHOOSE q \in 1..p : SameKey(p, q) /\ Rank(q) = 1

\* the request that opened the counter window request p is counted in
WindowStart(p) ==
  CHOOSE q \in 1..p :
    /\ SameKey(p, q) /\ hist[q].fresh
    /\ \A r \in (q + 1)..p : ~(SameKey(p, r) /\ hist[r].fresh)

ClearBetween(f, p) == \E q \in f..p : hist[q].clr

AdmittedFrom(f, p) == {q \in f..p : SameKey(p, q) /\ hist[q].ok}

\* C9 (as stated): whatever the order in which requests reach the limiter,
\* no more than max requests of one key are admitted within one window,
\* that is within windowMs of the request that opened the window.
C9_Original ==
  \A f \in 1..Len(hist) :
    hist[f].fresh =>
      Cardinality({q \in AdmittedFrom(f, Len(hist)) :
                      hist[q].t - hist[f].t <= WindowMs}) <= RateMax

\* C9 (amended): whatever the order in which requests reach the limiter, no
\* more than max requests of one key are admitted in one counter window,
\* a counter window ending when the key's entry expires or is dropped by
\* the periodic full-map clear.
C9_AtMostMaxPerCounterWindow ==
  \A p \in 1..Len(hist) :
    hist[p].ok => Cardinality(AdmittedFrom(WindowStart(p), p)) <= RateMax

\* requests of two keys interleave, one key has used up its window and was
\* refused
C9_Witness ==
  \E q, p, r \in 1..Len(hist) :
    /\ q < p /\ p < r
    /\ SameKey(q, r) /\ ~SameKey(q, p)
    /\ hist[q].ok /\ hist[p].ok /\ ~hist[r].ok

\* C10: a request of a key arriving after the window has elapsed since the
\* key's counter window was opened is admitted.
C10_AdmittedAfterWindow ==
  \A p \in 2..Len(hist) :
    \A q \in 1..(p - 1) :
      (SameKey(p, q) /\ \A r \in (q + 1)..(p - 1) : ~SameKey(p, r))
         => (hist[p].t - hist[WindowStart(q)].t > WindowMs => hist[p].ok)

\* a key was refused inside its window and admitted once the window was over
C10_Witness ==
  \E p \in 2..Len(hist) :
    \E q \in 1..(p - 1) :
      /\ SameKey(p, q) /\ ~hist[q].ok
      /\ \A r \in (q + 1)..(p - 1) : ~SameKey(p, r)
      /\ hist[p].t - hist[WindowStart(q)].t > WindowMs
      /\ hist[p].ok /\ hist[p].fresh

\* the limiter the requests of this run go through, as a function
LimiterStep(m, key, t) ==
  IF limiter = "email" THEN commonEmailRateLimiter(m, key, t)
  ELSE CommonRateLimiterMiddleware(m, key, t)

\* the map a limiter holds after the requests of `key` among the first p
\* requests, and no request of any other key, went through it
RECURSIVE ReplayMap(_, _)
ReplayMap(key, p) ==
  IF p = 0 THEN EmptyMap
  ELSE IF hist[p].key = key
  THEN LimiterStep(ReplayMap(key, p - 1), key, hist[p].t).map
  ELSE ReplayMap(key, p - 1)

\* the decision request p gets when the other keys never sent anything
AloneOk(p) == LimiterStep(ReplayMap(hist[p].key, p - 1), hist[p].key, hist[p].t).ok

\* a request of another key, between the first request of the key of p and
\* p, arrived while the periodic full-map clear was due
ForeignClear(p) == \E q \in First(p)..p : ~SameKey(p, q) /\ hist[q].clr

\* C11 (as stated): every request is admitted or rejected exactly as it
\* would be had the requests of all other keys never been made.
C11_Original ==
  \A p \in 1..Len(hist) : hist[p].ok = AloneOk(p)

\* C11 (amended): every request is admitted or rejected exactly as it would
\* be had the requests of all other keys never been made, unless a request
\* of another key arrived, since the key's first request, while the periodic
\* full-map clear was due.
C11_IndependentPerKey ==
  \A p \in 1..Len(hist) : ~ForeignClear(p) => hist[p].ok = AloneOk(p)

\* one key used up its limit and was refused, and a request of another key
\* that came after was admitted
C11_Witness ==
  \E q, p \in 1..Len(hist) :
    /\ q < p /\ ~SameKey(q, p)
    /\ ~hist[q].ok /\ hist[p].ok
    /\ ~ForeignClear(p)

(***************************************************************************)
(* Properties of the worker entry point (SpecWorker)                       *)
(***************************************************************************)
InFlight == req.pc # "idle"

\* C2: an email submission that a middleware answered with a terminal
\* response (403, 429 or 400) is not passed on to emailHandler, and no
\* provider send happens for it.
C2_TerminalResponseStopsRequest ==
  (InFlight /\ IsDirectPost(req.in) /\ req.terminal # "none")
     => /\ req.pc \notin {"handler", "sending"}
        /\ ~req.handlerCalled
        /\ ~req.sent

\* C3: a valid email submission that passed every middleware has reached
\* emailHandler and the provider by the time it is answered, and when the
\* provider reported success the answer is 200 "Email sent successfully".
C3_ValidSubmissionIsSent ==
  (/\ req.pc = "responded"
   /\ IsDirectPost(req.in)
   /\ req.in.body = "valid"
   /\ req.chainRan
   /\ req.terminal = "none")
     => /\ req.handlerCalled
        /\ req.sent
        /\ req.outcome = "ok" => (req.resp.status = 200 /\ req.resp.body = "sent")

\* C8: the general per-IP limiter counts across requests: a request that
\* reaches it after max earlier requests of the same IP in the window is
\* answered 429.
C8_GeneralLimiterCountsAcrossRequests ==
  (req.pc = "responded" /\ req.ipRank > RateMax) => req.resp.status = 429

\* the request carries an Origin header that the configuration does not allow
DisallowedOrigin(r) ==
  r.origin # "none" /\ env.CORS_ORIGIN # "*" /\ r.origin # env.CORS_ORIGIN

\* the request carries an Origin header that the configuration allows
AllowedOrigin(r) ==
  r.origin # "none" /\ (env.CORS_ORIGIN = "*" \/ r.origin = env.CORS_ORIGIN)

\* C12: every request whose Origin header is not an allowed origin, an
\* OPTIONS pre-flight or an actual request, is answered 403.
C12_DisallowedOriginGets403 ==
  (req.pc = "responded" /\ DisallowedOrigin(req.in)) => req.resp.status = 403

\* C13: no response to a request from a disallowed origin carries an
\* Access-Control-Allow-Origin header.
C13_NoAllowOriginForDisallowed ==
  (req.pc = "responded" /\ DisallowedOrigin(req.in)) => req.resp.acao = "none"

\* C14 (as stated): an OPTIONS pre-flight from an allowed origin is answered
\* 204 with Access-Control-Allow-Origin equal to the request's origin and
\* the other Access-Control-Allow-* headers, by corsMiddleware and before
\* securityMiddleware has looked at the request.
C14_Original ==
  (req.pc = "responded" /\ req.in.method = "OPTIONS" /\ AllowedOrigin(req.in))
     => /\ req.resp.status = 204
        /\ req.resp.acao = req.in.origin
        /\ req.resp.allow
        /\ ~req.resp.sec /\ req.terminal = "none"

\* C14 (amended): the same, with Access-Control-Allow-Origin equal to the
\* request's origin when one origin is configured and to "*" when the
\* configured origin is the wildcard.
C14_PreflightAnsweredByCors ==
  (req.pc = "responded" /\ req.in.method = "OPTIONS" /\ AllowedOrigin(req.in))
     => /\ req.resp.status = 204
        /\ req.resp.acao = (IF env.CORS_ORIGIN = "*" THEN "*" ELSE req.in.origin)
        /\ req.resp.allow
        /\ ~req.resp.sec /\ req.terminal = "none"

\* a pre-flight from the one configured origin, carrying headers outside
\* the allow-list, was answered 204 with that origin
C14_Witness ==
  /\ req.pc = "responded" /\ req.in.method = "OPTIONS"
  /\ env.CORS_ORIGIN = "site" /\ req.in.origin = "site" /\ ~req.in.hdrsOk
  /\ req.resp.status = 204 /\ req.resp.acao = "site"

\* C16: every invalid submission to the email endpoint that the CORS,
\* header and rate-limit checks let through is answered 400 with error code
\* VALIDATION_ERROR.
C16_InvalidSubmissionIsValidationError ==
  (/\ req.pc = "responded" /\ IsDirectPost(req.in)
   /\ req.in.body \in {"invalid", "loose"}
   /\ req.terminal \in {"none", "validate"})
     => (req.resp.status = 400 /\ req.resp.body = "val400")

\* C17: when the provider failed to send, the email endpoint answers 500
\* SERVER_ERROR "Internal server error", a body without the exception's text.
C17_ProviderFailureIsServerError ==
  (req.pc = "responded" /\ IsDirectPost(req.in) /\ req.outcome = "fail")
     => (req.resp.status = 500 /\ req.resp.body = "servererror")

(***************************************************************************)
(* Properties of EmailService, the providers and the factory (SpecService) *)
(***************************************************************************)
\* the submission lacks a required field or breaks a length or format bound
ViolatesBound(d) ==
  \/ ~d.name.present \/ ~d.email.present \/ ~d.message.present
  \/ d.name.len < NameMin \/ d.name.len > NameMax \/ ~d.name.form
  \/ ~d.email.form \/ d.email.len > EmailMax
  \/ d.message.len < MessageMin \/ d.message.len > MessageMax
  \/ d.browserInfo = "bad"

ProviderFailed == svc.pres.kind = "throw" \/ (svc.pres.kind = "return" /\ ~svc.pres.success)

C19_ProviderNeverLeaksTransportError ==
  (svc.pc = "done" /\ svc.calls = 1 /\ svc.inner.kind = "throw")
     => IF svc.inner.error.class = "EmailError"
        THEN svc.pres.kind = "throw" /\ svc.pres.error = svc.inner.error
        ELSE /\ svc.pres.kind = "return"
             /\ ~svc.pres.success /\ svc.pres.messageId = "null"
             /\ svc.pres.error.class = "Error"
             /\ svc.inner.error.class = "Error" => svc.pres.error = svc.inner.error

\* a provider met an Error that is not an EmailError and returned it in a
\* failure result
C19_Witness ==
  /\ svc.pc = "done" /\ svc.calls = 1
  /\ svc.inner.kind = "throw" /\ svc.inner.error.class = "Error"
  /\ svc.pres.kind = "return" /\ ~svc.pres.success
  /\ svc.pres.error = svc.inner.error

\* C20: whenever a MailChannels API key is configured, the provider
\* getProvider hands out is the API-key provider, whatever the host.
C20_ApiKeyAlwaysPreferred ==
  (svc.provider # "none" /\ env.MAILCHANNELS_API_KEY) => svc.provider = "ApiKey"

----------------------------------------------------------------------------
\* SpecResponse: one WorkerResponseAdapter and the calls a handler, a
\* middleware and the entry point make on it, in any order.

\* emit('finish'): every callback registered so far is called once
emit(r) ==
  [r EXCEPT !.calls = [l \in Listeners |->
                         IF r.listeners[l] # "no" THEN @[l] + 1 ELSE @[l]],
            !.emits = @ + 1,
            !.finalized = TRUE]

\* status codes for which send() builds a Response without a body
nullBodyStatusCodes == {101, 204, 205, 304}

\* the Response send() builds from the adapter's fields at the call
BuildResponse(r) ==
  [status |-> r.statusCode, header |-> r.header,
   hasBody |-> r.statusCode \notin nullBodyStatusCodes,
   body |-> IF r.statusCode \in nullBodyStatusCodes THEN "null" ELSE r.body]

ResponseUnchanged == UNCHANGED <<prov, pend, chainVars, rateVars, workerVars, serviceVars>>

\* res.on('finish', callback); `early` when the response is not yet final
On(l) ==
  /\ wres.listeners[l] = "no"
  /\ wres' = [wres EXCEPT !.listeners[l] =
                              IF wres.finalized THEN "late" ELSE "early"]
  /\ ResponseUnchanged

\* res.status(code), res.statusCode = code
Status(code) ==
  /\ wres' = [wres EXCEPT !.statusCode = code]
  /\ ResponseUnchanged

\* res.set(name, value)
Set(value) ==
  /\ wres' = [wres EXCEPT !.header = value]
  /\ ResponseUnchanged

\* res.body = data
BodySet(data) ==
  /\ wres' = [wres EXCEPT !.body = data]
  /\ ResponseUnchanged

\* res.json(data)
JsonCall(data) ==
  /\ wres.emits < MaxEmits
  /\ wres' = emit([wres EXCEPT !.body = data])
  /\ ResponseUnchanged

\* res.send()
SendCall ==
  /\ wres.emits < MaxEmits
  /\ wres' = emit([wres EXCEPT !.outputs = Append(@, BuildResponse(wres))])
  /\ ResponseUnchanged

InitResponse ==
  /\ ProviderIdle
  /\ WorkerIdle
  /\ ChainIdle
  /\ RateIdle
  /\ ServiceIdle

NextResponse ==
  \/ \E l \in Listeners : On(l)
  \/ \E code \in Statuses : Status(code)
  \/ \E value \in HeaderValues \ {"unset"} : Set(value)
  \/ \E data \in BodyValues : BodySet(data)
  \/ \E data \in BodyValues : JsonCall(data)
  \/ SendCall

SpecResponse == InitResponse /\ [][NextResponse]_vars

----------------------------------------------------------------------------
\* SpecProvider: one provider instance; initialize() calls run one after
\* the other, sendEmail calls overlap (each is suspended while its request
\* is on the wire).

ProviderUnchanged ==
  UNCHANGED <<pend, wres, chainVars, rateVars, workerVars, serviceVars>>

\* provider.initialize(): a no-op for the MailChannels providers; for
\* NodemailerProvider, failure is either missing OAuth2 credentials (before
\* a transport is made) or a failed verify() (after this.transporter was set)
Initialize(outcome) ==
  /\ prov.inits < MaxInits
  /\ prov' =
       IF prov.kind # "Nodemailer" \/ AlreadyInitialized(prov)
       THEN [prov EXCEPT !.inits = @ + 1, !.succeeded = TRUE]
       ELSE IF outcome = "credentials"
       THEN [prov EXCEPT !.inits = @ + 1]
       ELSE IF outcome = "verify"
       THEN [prov EXCEPT !.inits = @ + 1, !.transports = @ + 1,
                         !.transporter = prov.transports + 1, !.verifies = @ + 1]
       ELSE [prov EXCEPT !.inits = @ + 1, !.transports = @ + 1,
                         !.transporter = prov.transports + 1, !.verifies = @ + 1,
                         !.isInitialized = TRUE, !.succeeded = TRUE]
  /\ ProviderUnchanged

\* sendEmail(data) up to its first suspension: validateAuthentication,
\* getSenderInfo, createEmailPayload, modifyPayload and the fetch to the
\* relay (MailChannels), or mailOptions and transporter.sendMail
\* (Nodemailer, on an instance the factory has initialized); an Error
\* thrown on the way is returned as {success: false, error}
SendBegin(c, data) ==
  /\ prov.calls[c].pc = "idle"
  /\ prov.kind = "Nodemailer" => prov.isInitialized
  /\ LET auth == validateAuthentication(prov.kind, prov.apiKey)
         sender == getSenderInfo(prov.cfg)
         failed(e) == [pc |-> "done", data |-> data,
                       result |-> [success |-> FALSE, messageId |-> 0, error |-> e]]
         sent == [pc |-> "fetching", data |-> data, result |-> NoResult]
         p1 == [prov EXCEPT !.submitted[c] = data]
     IN prov' =
          IF prov.kind = "Nodemailer"
          THEN [p1 EXCEPT !.calls = SetLocal(@, c, sent),
                          !.wire[c] = [to |-> data, from |-> NoAddress, auth |-> "oauth2"],
                          !.fetches = @ + 1]
          ELSE IF auth # "ok"
          THEN [p1 EXCEPT !.calls = SetLocal(@, c, failed(auth))]
          ELSE IF ~sender.ok
          THEN [p1 EXCEPT !.calls = SetLocal(@, c, failed("TypeError"))]
          ELSE [p1 EXCEPT !.calls = SetLocal(@, c, sent),
                          !.wire[c] = [to |-> data, from |-> sender.senderEmail,
                                       auth |-> IF prov.kind = "ApiKey"
                                                THEN "X-API-Key" ELSE "Worker-ID"],
                          !.fetches = @ + 1]
  /\ ProviderUnchanged

\* the relay (or the SMTP server) answers the request of call c: the call
\* resumes and returns {success: true, messageId} or {success: false, error}
FetchReply(c, ok) ==
  /\ prov.calls[c].pc = "fetching"
  /\ prov' = [prov EXCEPT !.calls = SetLocal(@, c,
                 [pc |-> "done", data |-> prov.calls[c].data,
                  result |-> IF ok
                             THEN [success |-> TRUE, messageId |-> c, error |-> "none"]
                             ELSE [success |-> FALSE, messageId |-> 0,
                                   error |-> "transport"]])]
  /\ ProviderUnchanged

InitProvider ==
  /\ \E kind \in ProviderKinds, key \in ApiKeys, cfg \in SenderConfigs :
       /\ kind # "ApiKey" => key = NoKey
       /\ kind = "Nodemailer" => cfg = DefaultSender
       /\ prov = NewProvider(kind, key, cfg)
  /\ pend = NoPending
  /\ WorkerIdle
  /\ ChainIdle
  /\ RateIdle
  /\ ServiceIdle

NextProvider ==
  \/ \E outcome \in {"ok", "credentials", "verify"} : Initialize(outcome)
  \/ \E c \in Calls, data \in SendData : SendBegin(c, data)
  \/ \E c \in Calls, ok \in BOOLEAN : FetchReply(c, ok)

SpecProvider == InitProvider /\ [][NextProvider]_vars

----------------------------------------------------------------------------
\* SpecOverlap: getProvider calls that overlap. A call runs from its start
\* to `await provider.initialize()` in one step (the cache lookup and the
\* construction are synchronous) and from the end of initialize() to its
\* return in another; other calls may run in between.

Callers == 1..MaxCallers

OverlapUnchanged ==
  UNCHANGED <<prov, wres, svc, fac, chainVars, rateVars, workerVars>>

\* getProvider(useWorker) up to the await: a cache hit returns the cached
\* instance, a miss constructs a provider and starts initializing it
GetBegin(c, useWorker) ==
  /\ pend.callers[c].pc = "idle"
  /\ LET key == CacheKey(env, useWorker)
         made == [kind |-> CreateProvider(env, useWorker), id |-> pend.nextId]
     IN pend' =
          IF providerCache[key] # NoProvider
          THEN [pend EXCEPT !.callers[c] =
                  [pc |-> "done", useWorker |-> useWorker, created |-> NoProvider,
                   got |-> providerCache[key], constructed |-> 0]]
          ELSE [pend EXCEPT !.nextId = @ + 1,
                            !.callers[c] =
                  [pc |-> "initializing", useWorker |-> useWorker, created |-> made,
                   got |-> NoProvider, constructed |-> 1]]
  /\ UNCHANGED providerCache
  /\ OverlapUnchanged

\* initialize() of the provider call c constructed settles: the call caches
\* and returns its provider, or rethrows the error
GetFinish(c, initOk) ==
  /\ pend.callers[c].pc = "initializing"
  /\ LET me == pend.callers[c]
         key == CacheKey(env, me.useWorker)
     IN IF InitializeFails(me.created.kind, initOk)
        THEN /\ pend' = [pend EXCEPT !.callers[c].pc = "threw"]
             /\ UNCHANGED providerCache
        ELSE /\ pend' = [pend EXCEPT !.callers[c].pc = "done",
                                     !.callers[c].got = me.created]
             /\ providerCache' = CacheSet(providerCache, key, me.created)
  /\ OverlapUnchanged

InitOverlap ==
  /\ pend = NoPending
  /\ prov = NewProvider("Worker", NoKey, DefaultSender)
  /\ ServiceIdle
  /\ WorkerStart
  /\ env \in FactoryEnvs
  /\ ChainIdle
  /\ RateIdle

NextOverlap ==
  \/ \E c \in Callers, w \in BOOLEAN : GetBegin(c, w)
  \/ \E c \in Callers, initOk \in BOOLEAN : GetFinish(c, initOk)

SpecOverlap == InitOverlap /\ [][NextOverlap]_vars

\* C21: with no API key configured, a provider that getProvider returns is
\* the worker (domain-auth) provider on the edge host and the Nodemailer
\* (SMTP) provider on the long-lived host.
C21_NoKeySelectsWorkerOrSmtp ==
  (fac.last.outcome = "returned" /\ ~fac.last.config.MAILCHANNELS_API_KEY)
    => fac.last.kind = IF fac.last.useWorker THEN "Worker" ELSE "Nodemailer"

\* C22: two getProvider calls, one after the other with the same
\* configuration and host mode and no clearCache() between them, that both
\* return, return the same instance.
C22_SameConfigSameInstance ==
  ( /\ fac.prev.outcome = "returned"
    /\ fac.last.outcome = "returned"
    /\ fac.last.config = fac.prev.config
    /\ fac.last.useWorker = fac.prev.useWorker
    /\ ~fac.last.clearedBefore )
    => (fac.last.id = fac.prev.id /\ fac.last.kind = fac.prev.kind)

\* the second of two such calls has returned, and the first one built the
\* instance
C22_Witness ==
  /\ fac.prev.outcome = "returned"
  /\ fac.prev.constructed = 1
  /\ fac.last.outcome = "returned"
  /\ fac.last.config = fac.prev.config
  /\ fac.last.useWorker = fac.prev.useWorker
  /\ ~fac.last.clearedBefore

\* C23: the instance getProvider returns is of the type the selection
\* resolves for the configuration in effect at the call; in particular a
\* cached instance is not returned for a configuration that resolves to a
\* different type.
C23_ReturnedTypeMatchesConfiguration ==
  fac.last.outcome = "returned"
    => fac.last.kind = CreateProvider(fac.last.config, fac.last.useWorker)

\* C24: when initialize() of the selected provider fails, getProvider throws
\* that error: the caller gets no provider, and only the selected provider
\* was constructed.
C24_InitFailurePropagates ==
  [][ \A w \in BOOLEAN :
        ( /\ providerCache[CacheKey(env, w)] = NoProvider
          /\ CreateProvider(env, w) = "Nodemailer"
          /\ GetProviderCall(w, FALSE) )
          => /\ fac'.last.outcome = "threw"
             /\ fac'.last.error = Err("EmailError", "init")
             /\ fac'.last.kind = "none"
             /\ fac'.last.id = 0
             /\ fac'.last.constructed = 1
             /\ providerCache' = providerCache ]_vars

\* a getProvider call has ended with the error of initialize()
C24_Witness ==
  /\ fac.last.outcome = "threw"
  /\ fac.last.error = Err("EmailError", "init")
  /\ fac.last.constructed = 1

\* C25: a finish listener registered before the response became final has
\* been called exactly once when the response is final, and not at all
\* before, whatever json() and send() calls were made.
C25_FinishExactlyOnce ==
  \A l \in Listeners :
    wres.listeners[l] = "early"
      => wres.calls[l] = IF wres.finalized THEN 1 ELSE 0

\* C26: all the Responses that send() returned for one adapter have the same
\* status, headers and body.
C26_SendTwiceSameOutput ==
  \A i, j \in 1..Len(wres.outputs) : wres.outputs[i] = wres.outputs[j]

\* C27: once send() has been called, status(), set(), json() and an
\* assignment to body change nothing that can be observed: not the fields
\* a getter or a later send() reads, and not the listeners' calls.
C27_NoEffectAfterSend ==
  [][ ( /\ Len(wres.outputs) > 0
        /\ \/ \E code \in Statuses : Status(code)
           \/ \E value \in HeaderValues : Set(value)
           \/ \E data \in BodyValues : BodySet(data)
           \/ \E data \in BodyValues : JsonCall(data) )
        => /\ wres'.statusCode = wres.statusCode
           /\ wres'.header = wres.header
           /\ wres'.body = wres.body
           /\ wres'.calls = wres.calls ]_vars

\* a request that processRequest handled has been answered
Answered == req.pc = "responded"

\* C28: a request other than a pre-flight that every common middleware let
\* through is answered by the handler of its route: GET /api/health with
\* 200 and the health body, a request matching no route with 404 and the
\* NOT_FOUND body.
C28_LetThroughIsRouted ==
  ( /\ Answered
    /\ req.chainRan
    /\ ~IsDirectPost(req.in)
    /\ req.in.method # "OPTIONS"
    /\ req.terminal = "none" )
    => IF req.in.path = "/api/health" /\ req.in.method = "GET"
       THEN req.resp.status = 200 /\ req.resp.body = "health"
       ELSE req.resp.status = 404 /\ req.resp.body = "notfound"

\* C29: every response with a 2xx or 4xx status carries the security
\* headers.
C29_SecurityHeadersOnEveryResponse ==
  (Answered /\ req.resp.status >= 200 /\ req.resp.status < 500)
    => req.resp.sec

\* C30: every error response (status 400 or above) has a body of the shape
\* {success: false, message, error: {code, details?}}.
C30_ErrorResponsesShareShape ==
  (Answered /\ req.resp.status >= 400) => HasErrorCode(req.resp.body)

\* C39: after a getProvider call that failed in initialize(), the cache
\* holds nothing under that call's key, and a following call for the same
\* configuration and host mode is not a cache hit: it constructs and
\* initializes a provider itself.
C39_FailedInitCachesNothing ==
  /\ fac.last.outcome = "threw"
       => providerCache[CacheKey(fac.last.config, fac.last.useWorker)] = NoProvider
  /\ ( /\ fac.prev.outcome = "threw"
       /\ fac.last.outcome # "none"
       /\ fac.last.config = fac.prev.config
       /\ fac.last.useWorker = fac.prev.useWorker )
       => (~fac.last.hit /\ fac.last.constructed = 1)

\* a call failed in initialize() and the next call, for the same
\* configuration and host mode, succeeded with a provider of its own
C39_Witness ==
  /\ fac.prev.outcome = "threw"
  /\ fac.last.outcome = "returned"
  /\ fac.last.config = fac.prev.config
  /\ fac.last.useWorker = fac.prev.useWorker
  /\ fac.last.constructed = 1

\* the map of the limiter under test
LimiterMap == IF limiter = "email" THEN emailRateLimitMap ELSE ipLimitMap

\* C38: a request that arrives while the periodic full-map clear is due is
\* admitted, and its key's entry afterwards holds a count of 1.
C38_ClearAppliesToOwnKey ==
  LET n == Len(hist)
  IN (n > 0 /\ hist[n].clr)
       => (hist[n].ok /\ LimiterMap[hist[n].key].count = 1)

\* C40: on every request the general rate limiter admits,
\* X-RateLimit-Remaining is max minus the count its key's entry holds once
\* the request has been counted.
C40_RemainingCountsThisRequest ==
  LET n == Len(hist)
  IN (n > 0 /\ limiter = "ip" /\ hist[n].ok)
       => hist[n].remaining = RateMax - ipLimitMap[hist[n].key].count

\* C37: when runMiddlewareChain has resolved, every middleware it started
\* has finished: none is still suspended on its own I/O or on next().
C37_RunnerWaitsForStartedMiddleware ==
  runner = "returned"
    => \A i \in 1..Len(mws) :
         /\ chain.mstate[i] # "io"
         /\ mws[i].async => chain.mstate[i] # "awaitNext"

\* the common part of the documented pipeline, in its order
CommonPipeline == <<"cors", "logging", "security", "general">>

\* C34: the middleware a request went through are the documented pipeline
\* from its start, in that order (CORS, logging, security headers, general
\* rate limiting, then the route's own middleware), and a request whose
\* route handler was called went through all of it, email rate limiting
\* included.
C34_SamePipelineForEveryRequest ==
  (Answered /\ req.chainRan)
    => /\ \A k \in 1..Len(req.ran) :
            k <= Len(CommonPipeline) => req.ran[k] = CommonPipeline[k]
       /\ req.handlerCalled
            => /\ Len(req.ran) > Len(CommonPipeline)
               /\ req.ran[Len(CommonPipeline) + 1] = "emailRate"

\* a key that is empty, shorter than the minimum length, or holds a
\* character outside printable ASCII
MalformedKey(key) ==
  key.len = 0 \/ key.len < MinKeyLength \/ key.chars # "printable"

\* C31: on an API-key provider with a malformed key, no sendEmail call puts
\* a request on the wire: every call made has ended with {success: false}
\* and the error of the key check.
C31_MalformedKeyMakesNoNetworkCall ==
  (prov.kind = "ApiKey" /\ MalformedKey(prov.apiKey))
    => /\ prov.fetches = 0
       /\ \A c \in Calls :
            /\ prov.wire[c] = NoPayload
            /\ prov.calls[c].pc # "idle"
                 => /\ prov.calls[c].pc = "done"
                    /\ ~prov.calls[c].result.success
                    /\ prov.calls[c].result.error \in {"missing", "malformed"}

\* every sendEmail call on an API-key provider with a malformed key has
\* been made and has ended
C31_Witness ==
  /\ prov.kind = "ApiKey"
  /\ prov.apiKey.len > 0
  /\ MalformedKey(prov.apiKey)
  /\ \A c \in Calls : prov.calls[c].pc = "done"

\* C32: overlapping sendEmail calls on one instance do not interfere: each
\* call keeps the submission it was given, the request it put on the wire
\* is for that submission, a successful result carries the id of the reply
\* to its own request, and no step of a call changes a field of the
\* instance.
C32_OverlappingSendsIndependent ==
  /\ [](\A c \in Calls :
          /\ prov.calls[c].pc # "idle" => prov.calls[c].data = prov.submitted[c]
          /\ prov.wire[c] # NoPayload => prov.wire[c].to = prov.submitted[c]
          /\ prov.calls[c].result.success => prov.calls[c].result.messageId = c)
  /\ [][ ( \/ \E c \in Calls, data \in SendData : SendBegin(c, data)
           \/ \E c \in Calls, ok \in BOOLEAN : FetchReply(c, ok) )
           => /\ prov'.apiKey = prov.apiKey
              /\ prov'.transporter = prov.transporter
              /\ prov'.isInitialized = prov.isInitialized ]_vars

\* two calls with different submissions were on the wire together and both
\* have returned
C32_Witness ==
  /\ \A c \in Calls : prov.calls[c].pc = "done" /\ prov.wire[c] # NoPayload
  /\ prov.submitted[1] # prov.submitted[2]
  /\ prov.calls[1].result.success
  /\ ~prov.calls[2].result.success

\* C33: initialize() called on a provider on which an earlier initialize()
\* has succeeded creates no transport and verifies nothing.
C33_InitializeIdempotent ==
  [][ ( /\ prov.succeeded
        /\ \E outcome \in {"ok", "credentials", "verify"} : Initialize(outcome) )
        => /\ prov'.transports = prov.transports
           /\ prov'.verifies = prov.verifies
           /\ prov'.transporter = prov.transporter
           /\ prov'.isInitialized = prov.isInitialized ]_vars

\* a NodemailerProvider has been initialized twice, the first time with
\* success
C33_Witness ==
  /\ prov.kind = "Nodemailer"
  /\ prov.succeeded
  /\ prov.inits = 2
  /\ prov.transports = 1

\* C35: a sendEmail call that passed the key check sends from the
\* configured sender email when there is one; otherwise from noreply@ the
\* configured sender domain; and from noreply@ the host of the CORS origin
\* only when neither is configured.
C35_SenderPrecedence ==
  \A c \in Calls :
    ( /\ prov.kind \in {"ApiKey", "Worker"}
      /\ prov.calls[c].pc # "idle"
      /\ ~MalformedKey(prov.apiKey) \/ prov.kind = "Worker" )
      => IF prov.cfg.email # "unset"
         THEN prov.wire[c].from = [local |-> "configured", domain |-> prov.cfg.email]
         ELSE IF prov.cfg.domain # "unset"
         THEN prov.wire[c].from = [local |-> "noreply", domain |-> prov.cfg.domain]
         ELSE prov.cfg.cors # "unparseable"
                => prov.wire[c].from = [local |-> "noreply", domain |-> "site"]

\* C36: getProvider calls for the same cache key, overlapping or not, that
\* have returned got the same instance, and at most one instance was
\* constructed for the key among the calls that did not fail.
C36_OverlappingCallsShareOneInstance ==
  \A c, d \in Callers :
    ( /\ c # d
      /\ pend.callers[c].pc = "done"
      /\ pend.callers[d].pc = "done"
      /\ pend.callers[c].useWorker = pend.callers[d].useWorker )
      => /\ pend.callers[c].got = pend.callers[d].got
         /\ pend.callers[c].constructed + pend.callers[d].constructed <= 1

====
